---------------------------- MODULE Spec2Model ----------------------------
(***************************************************************************)
(* rusty-toolkit password vault: key derivation and authenticated cipher   *)
(* (src/utils/encryption.rs), master vault bootstrap / verify              *)
(* (src/cli/password.rs) and the entry store (src/utils/database.rs).      *)
(*                                                                         *)
(* Text is a sequence of Unicode scalar values, binary data a sequence of  *)
(* bytes 0..255.  The ring primitives (PBKDF2-HMAC-SHA256 and              *)
(* ChaCha20-Poly1305) are library code; they are modelled by small         *)
(* deterministic byte functions with the same interface: a 32-byte key     *)
(* from (password, salt), a keystream from (key, nonce), a 16-byte tag     *)
(* from (key, nonce, ciphertext).  SQLite is modelled by its documented    *)
(* behaviour for the statements the code issues.                           *)
(***************************************************************************)
EXTENDS Integers, Sequences, FiniteSets, TLC

(***************************************************************************)
(* Program constants                                                       *)
(***************************************************************************)
NonceLen == 12
TagLen == 16
SaltLen == 16
KeyLen == 32

(***************************************************************************)
(* Bounds of the model                                                     *)
(***************************************************************************)
MaxLen == 2

(***************************************************************************)
(* Results: Rust's Result<T, E>                                            *)
(***************************************************************************)
Ok(v) == [ok |-> TRUE, val |-> v]
Err == [ok |-> FALSE, val |-> <<>>]

(***************************************************************************)
(* Byte helpers                                                            *)
(***************************************************************************)
RECURSIVE Xor(_, _)
Xor(a, b) ==
    IF a = 0 THEN b
    ELSE IF b = 0 THEN a
    ELSE (((a % 2) + (b % 2)) % 2) + (2 * Xor(a \div 2, b \div 2))

RECURSIVE Pow2(_)
Pow2(n) == IF n = 0 THEN 1 ELSE 2 * Pow2(n - 1)

RECURSIVE Flatten(_)
Flatten(ss) == IF ss = <<>> THEN <<>> ELSE Head(ss) \o Flatten(Tail(ss))

(***************************************************************************)
(* str::as_bytes and String::from_utf8: UTF-8 encoding of scalar values    *)
(***************************************************************************)
Utf8Char(c) ==
    IF c < 128 THEN <<c>>
    ELSE IF c < 2048 THEN <<192 + (c \div 64), 128 + (c % 64)>>
    ELSE IF c < 65536 THEN
        <<224 + (c \div 4096), 128 + ((c \div 64) % 64), 128 + (c % 64)>>
    ELSE <<240 + (c \div 262144), 128 + ((c \div 4096) % 64),
           128 + ((c \div 64) % 64), 128 + (c % 64)>>

as_bytes(s) == Flatten([i \in 1 .. Len(s) |-> Utf8Char(s[i])])

IsCont(b) == b >= 128 /\ b < 192

RECURSIVE from_utf8(_)
from_utf8(bs) ==
    IF bs = <<>> THEN Ok(<<>>)
    ELSE
      LET b1 == bs[1]
          n  == IF b1 < 128 THEN 1
                ELSE IF b1 >= 194 /\ b1 < 224 THEN 2
                ELSE IF b1 >= 224 /\ b1 < 240 THEN 3
                ELSE IF b1 >= 240 /\ b1 < 245 THEN 4
                ELSE 0
      IN IF n = 0 \/ Len(bs) < n THEN Err
         ELSE IF \E i \in 2 .. n : ~IsCont(bs[i]) THEN Err
         ELSE
           LET c == IF n = 1 THEN b1
                    ELSE IF n = 2 THEN ((b1 - 192) * 64) + (bs[2] - 128)
                    ELSE IF n = 3 THEN
                        ((b1 - 224) * 4096) + ((bs[2] - 128) * 64) + (bs[3] - 128)
                    ELSE ((b1 - 240) * 262144) + ((bs[2] - 128) * 4096)
                         + ((bs[3] - 128) * 64) + (bs[4] - 128)
               bad == \/ (n = 3 /\ c < 2048)
                      \/ (n = 3 /\ c >= 55296 /\ c < 57344)
                      \/ (n = 4 /\ (c < 65536 \/ c >= 1114112))
               rest == from_utf8(SubSeq(bs, n + 1, Len(bs)))
           IN IF bad \/ ~rest.ok THEN Err ELSE Ok(<<c>> \o rest.val)

(***************************************************************************)
(* ring stand-ins.  Digest folds a byte string to 16 bits; every step is a *)
(* bijection of the running value, so two inputs of one length that differ *)
(* in exactly one byte never share a digest.  Words spreads a 16-bit value *)
(* over n bytes; its first two bytes determine the value.                  *)
(***************************************************************************)
RECURSIVE Fold(_, _)
Fold(bs, h) ==
    IF h >= 0 /\ bs # <<>>
    THEN Fold(Tail(bs), ((h * 31) + Head(bs) + 7) % 65536)
    ELSE h

Digest(bs) == Fold(bs, Len(bs))

Words(d, n) ==
    [j \in 1 .. n |->
        LET k == (j + 1) \div 2
            w == ((d * ((2 * k) + 1)) + (13 * k)) % 65536
        IN IF j % 2 = 1 THEN w % 256 ELSE w \div 256]

\* pbkdf2::derive(PBKDF2_HMAC_SHA256, 100_000, salt, password, &mut key)
pbkdf2_derive(salt, secret) == Words(Digest(salt \o <<255>> \o secret), KeyLen)

\* ChaCha20 keystream byte i for (key, nonce)
KeyStream(key, nonce, i) == Digest(key \o nonce \o <<i % 256>>) % 256

\* Poly1305 tag over the ciphertext for (key, nonce), empty associated data:
\* a digest of nonce and ciphertext masked by the key
Tag(key, nonce, ct) ==
    Words((Digest(nonce \o ct) + key[1] + (256 * key[2])) % 65536, TagLen)

\* LessSafeKey::seal_in_place_append_tag
seal_in_place_append_tag(key, nonce, in_out) ==
    LET ct == [i \in 1 .. Len(in_out) |-> Xor(in_out[i], KeyStream(key, nonce, i))]
    IN ct \o Tag(key, nonce, ct)

\* open_in_place that returns the plaintext without comparing the tag
open_in_place_NoVerify(key, nonce, in_out) ==
    IF Len(in_out) < TagLen THEN Err
    ELSE
      LET n  == Len(in_out) - TagLen
          ct == SubSeq(in_out, 1, n)
      IN Ok([i \in 1 .. n |-> Xor(ct[i], KeyStream(key, nonce, i))])

\* LessSafeKey::open_in_place
open_in_place(key, nonce, in_out) ==
    IF Len(in_out) < TagLen THEN Err
    ELSE
      LET n   == Len(in_out) - TagLen
          ct  == SubSeq(in_out, 1, n)
          tag == SubSeq(in_out, n + 1, Len(in_out))
      IN IF tag # Tag(key, nonce, ct) THEN Err
         ELSE Ok([i \in 1 .. n |-> Xor(ct[i], KeyStream(key, nonce, i))])

(***************************************************************************)
(* Encryption (src/utils/encryption.rs)                                    *)
(***************************************************************************)
\* SystemRandom::fill: the bytes delivered, or Err when the source fails
RngFail == Err

\* Encryption::new deriving under the fixed salt of get_key instead of salt
Encryption_new_FixedSalt(master_password, salt) ==
    [key |-> pbkdf2_derive(<<100, 98, 95, 101, 110, 99, 114, 121, 112, 116, 105, 111, 110>>,
                           as_bytes(master_password))]

\* Encryption::new(master_password, salt)
Encryption_new(master_password, salt) ==
    [key |-> pbkdf2_derive(salt, as_bytes(master_password))]

\* encrypt that returns the sealed bytes without the nonce in front
encrypt_NoNonce(self, data, rnd) ==
    IF ~rnd.ok THEN Err
    ELSE Ok(seal_in_place_append_tag(self.key, rnd.val, as_bytes(data)))

\* encrypt that seals under nonce_bytes as initialised, all zero
encrypt_ZeroNonce(self, data, rnd) ==
    LET nonce_bytes == [i \in 1 .. NonceLen |-> 0]
    IN Ok(nonce_bytes \o seal_in_place_append_tag(self.key, nonce_bytes, as_bytes(data)))

\* Encryption::encrypt(data); rnd is what SystemRandom::fill delivers
encrypt(self, data, rnd) ==
    IF ~rnd.ok THEN Err
    ELSE LET nonce_bytes == rnd.val
         IN Ok(nonce_bytes
               \o seal_in_place_append_tag(self.key, nonce_bytes, as_bytes(data)))

\* decrypt that hands a short input to the AEAD open before rejecting it
decrypt_LateCheck(self, encrypted_data) ==
    LET k      == IF Len(encrypted_data) < NonceLen THEN Len(encrypted_data) ELSE NonceLen
        nonce  == SubSeq(encrypted_data, 1, k) \o [i \in 1 .. NonceLen - k |-> 0]
        in_out == SubSeq(encrypted_data, k + 1, Len(encrypted_data))
        plain  == open_in_place(self.key, nonce, in_out)
    IN IF ~plain.ok \/ Len(encrypted_data) < NonceLen THEN Err @@ [opened |-> TRUE]
       ELSE from_utf8(plain.val) @@ [opened |-> TRUE]

\* Encryption::decrypt(encrypted_data); opened records whether the AEAD
\* open was attempted
decrypt(self, encrypted_data) ==
    IF Len(encrypted_data) < NonceLen THEN Err @@ [opened |-> FALSE]
    ELSE
      LET nonce  == SubSeq(encrypted_data, 1, NonceLen)
          in_out == SubSeq(encrypted_data, NonceLen + 1, Len(encrypted_data))
          plain  == open_in_place(self.key, nonce, in_out)
      IN IF ~plain.ok THEN Err @@ [opened |-> TRUE]
         ELSE from_utf8(plain.val) @@ [opened |-> TRUE]

(***************************************************************************)
(* base64 STANDARD engine: alphabet A-Z a-z 0-9 + /, '=' padding required, *)
(* non-zero trailing bits rejected on decode                               *)
(***************************************************************************)
PadChar == 61

B64Char(v) ==
    IF v < 26 THEN 65 + v
    ELSE IF v < 52 THEN 97 + (v - 26)
    ELSE IF v < 62 THEN 48 + (v - 52)
    ELSE IF v = 62 THEN 43 ELSE 47

\* the 6-bit value of an alphabet character, -1 for any other character
B64Val(c) ==
    IF c >= 65 /\ c <= 90 THEN c - 65
    ELSE IF c >= 97 /\ c <= 122 THEN (c - 97) + 26
    ELSE IF c >= 48 /\ c <= 57 THEN (c - 48) + 52
    ELSE IF c = 43 THEN 62
    ELSE IF c = 47 THEN 63
    ELSE 0 - 1

RECURSIVE STANDARD_encode(_)
STANDARD_encode(bs) ==
    IF Len(bs) = 0 THEN <<>>
    ELSE IF Len(bs) = 1 THEN
        LET n == bs[1] * 16
        IN <<B64Char(n \div 64), B64Char(n % 64), PadChar, PadChar>>
    ELSE IF Len(bs) = 2 THEN
        LET n == (bs[1] * 1024) + (bs[2] * 4)
        IN <<B64Char(n \div 4096), B64Char((n \div 64) % 64), B64Char(n % 64), PadChar>>
    ELSE
        LET n == (bs[1] * 65536) + (bs[2] * 256) + bs[3]
        IN <<B64Char(n \div 262144), B64Char((n \div 4096) % 64),
             B64Char((n \div 64) % 64), B64Char(n % 64)>>
           \o STANDARD_encode(SubSeq(bs, 4, Len(bs)))

RECURSIVE STANDARD_decode(_)
STANDARD_decode(cs) ==
    IF Len(cs) = 0 THEN Ok(<<>>)
    ELSE IF Len(cs) < 4 THEN Err
    ELSE
      LET v1 == B64Val(cs[1])
          v2 == B64Val(cs[2])
          v3 == B64Val(cs[3])
          v4 == B64Val(cs[4])
          final == Len(cs) = 4
      IN IF v1 < 0 \/ v2 < 0 THEN Err
         ELSE IF final /\ cs[3] = PadChar /\ cs[4] = PadChar THEN
             IF v2 % 16 # 0 THEN Err ELSE Ok(<<(v1 * 4) + (v2 \div 16)>>)
         ELSE IF v3 < 0 THEN Err
         ELSE IF final /\ cs[4] = PadChar THEN
             IF v3 % 4 # 0 THEN Err
             ELSE Ok(<<(v1 * 4) + (v2 \div 16), ((v2 % 16) * 16) + (v3 \div 4)>>)
         ELSE IF v4 < 0 THEN Err
         ELSE
           LET rest == STANDARD_decode(SubSeq(cs, 5, Len(cs)))
           IN IF ~rest.ok THEN Err
              ELSE Ok(<<(v1 * 4) + (v2 \div 16), ((v2 % 16) * 16) + (v3 \div 4),
                        ((v3 % 4) * 64) + v4>> \o rest.val)

(***************************************************************************)
(* Text matching.  contains is str::contains; Like is SQLite's LIKE with   *)
(* no ESCAPE clause: '%' matches any run of characters, '_' exactly one,   *)
(* every other character itself, ASCII letters without regard to case.     *)
(***************************************************************************)
Percent == 37
Underscore == 95

contains(field, q) ==
    \E i \in 0 .. Len(field) - Len(q) : SubSeq(field, i + 1, i + Len(q)) = q

AsciiLower(c) == IF c >= 65 /\ c <= 90 THEN c + 32 ELSE c

RECURSIVE Like(_, _)
Like(pat, str) ==
    IF pat = <<>> THEN str = <<>>
    ELSE IF Head(pat) = Percent THEN
        \E k \in 0 .. Len(str) : Like(Tail(pat), SubSeq(str, k + 1, Len(str)))
    ELSE IF str = <<>> THEN FALSE
    ELSE IF Head(pat) = Underscore THEN Like(Tail(pat), Tail(str))
    ELSE AsciiLower(Head(pat)) = AsciiLower(Head(str)) /\ Like(Tail(pat), Tail(str))

(***************************************************************************)
(* Inputs of the model                                                     *)
(***************************************************************************)
\* 'a', U+00E9 (two UTF-8 bytes)
CharSet == {97, 233}

RECURSIVE StringsUpTo(_, _)
StringsUpTo(cs, n) ==
    IF n = 0 THEN {<<>>}
    ELSE LET shorter == StringsUpTo(cs, n - 1)
         IN shorter \cup {<<c>> \o s : c \in cs, s \in {t \in shorter : Len(t) = n - 1}}

Plaintexts == StringsUpTo(CharSet, MaxLen)

\* "pw", "pW", "qw"
MasterPasswords == {<<112, 119>>, <<112, 87>>, <<113, 119>>}

Salts == {[i \in 1 .. SaltLen |-> 0], [i \in 1 .. SaltLen |-> IF i = 5 THEN 1 ELSE 0]}

Nonces == {[i \in 1 .. NonceLen |-> i], [i \in 1 .. NonceLen |-> (200 + (3 * i)) % 256]}

Zeros(n) == [i \in 1 .. n |-> 0]

FlipBit(bs, i, b) ==
    [bs EXCEPT ![i] = IF (bs[i] \div Pow2(b)) % 2 = 1 THEN bs[i] - Pow2(b)
                      ELSE bs[i] + Pow2(b)]

MaxRuns == 3
MaxRows == 2
MaxTime == 1
MaxOps == 3

VARIABLES
    cx,           \* cipher harness
    master_file,  \* master.key in the configuration directory
    pm,           \* the PasswordManager of the running process, if any
    run,          \* what the last PasswordManager::new call did
    boot,         \* password and salt of the bootstrap that wrote master_file
    runs,         \* PasswordManager::new calls made so far
    db,           \* the Database: rows of table passwords and its Encryption
    now,          \* the latest instant Utc::now() has returned
    last,         \* the last create / update / delete and what it met
    out,          \* what the last read / read_by_id / search returned
    nops,         \* create / update / delete calls made so far
    gen           \* the password generator and validators: the call in progress

vars == <<cx, master_file, pm, run, boot, runs, db, now, last, out, nops, gen>>

Absent == [exists |-> FALSE, content |-> <<>>]
File(bytes) == [exists |-> TRUE, content |-> bytes]

NoManager == [alive |-> FALSE, master_password |-> <<>>, salt |-> <<>>, key |-> <<>>]
NoRun == [branch |-> "none", password |-> <<>>, prompts |-> 0,
          db_opened |-> FALSE, result |-> "none"]
NoBoot == [done |-> FALSE, password |-> <<>>, salt |-> <<>>]

cxIdle == [pw |-> <<>>, salt |-> <<>>, data |-> <<>>, blob |-> <<>>, how |-> "idle",
           dpw |-> <<>>, dsalt |-> <<>>, res |-> Err @@ [opened |-> FALSE]]

vaultIdle ==
    /\ master_file = Absent
    /\ pm = NoManager
    /\ run = NoRun
    /\ boot = NoBoot
    /\ runs = 0

vaultVars == <<master_file, pm, run, boot, runs>>

NoDatabase == [rows |-> {}, encryption |-> [key |-> <<>>]]
NoCall == [op |-> "none", result |-> "none"]

storeIdle ==
    /\ db = NoDatabase
    /\ now = 0
    /\ last = NoCall
    /\ out = NoCall
    /\ nops = 0

storeVars == <<db, now, last, out, nops>>

genIdle == [pc |-> "idle", call |-> "none", arg |-> 0, input |-> <<>>,
            password |-> <<>>, drawn |-> 0, depth |-> 0, result |-> "none"]

(***************************************************************************)
(* Cipher harness: one Encryption instance seals a plaintext; the blob is  *)
(* left intact, has one bit flipped, or is cut short; any instance opens   *)
(* it.                                                                     *)
(***************************************************************************)
InitCipher ==
    /\ gen = genIdle
    /\ vaultIdle
    /\ storeIdle
    /\ \E p \in MasterPasswords, s \in Salts, d \in Plaintexts :
        cx = [pw |-> p, salt |-> s, data |-> d, blob |-> <<>>, how |-> "new",
              dpw |-> <<>>, dsalt |-> <<>>, res |-> Err @@ [opened |-> FALSE]]

CipherEncrypt ==
    /\ UNCHANGED <<vaultVars, storeVars, gen>>
    /\ cx.how = "new"
    /\ \E n \in Nonces :
         LET r == encrypt(Encryption_new(cx.pw, cx.salt), cx.data, Ok(n))
         IN cx' = [cx EXCEPT !.blob = r.val, !.how = "sealed"]

CipherEncryptRngFail ==
    /\ UNCHANGED <<vaultVars, storeVars, gen>>
    /\ cx.how = "new"
    /\ LET r == encrypt(Encryption_new(cx.pw, cx.salt), cx.data, RngFail)
       IN cx' = [cx EXCEPT !.how = IF r.ok THEN "sealed" ELSE "encrypt_failed"]

CipherFlip ==
    /\ UNCHANGED <<vaultVars, storeVars, gen>>
    /\ cx.how = "sealed"
    /\ \E i \in 1 .. Len(cx.blob), b \in 0 .. 7 :
         cx' = [cx EXCEPT !.blob = FlipBit(cx.blob, i, b), !.how = "flipped"]

CipherTruncate ==
    /\ UNCHANGED <<vaultVars, storeVars, gen>>
    /\ cx.how = "sealed"
    /\ \E n \in 0 .. Len(cx.blob) - 1 :
         cx' = [cx EXCEPT !.blob = SubSeq(cx.blob, 1, n), !.how = "cut"]

CipherGarbage ==
    /\ UNCHANGED <<vaultVars, storeVars, gen>>
    /\ cx.how = "new"
    /\ \E n \in 0 .. NonceLen + TagLen :
         cx' = [cx EXCEPT !.blob = Zeros(n), !.how = "garbage"]

CipherDecrypt ==
    /\ UNCHANGED <<vaultVars, storeVars, gen>>
    /\ cx.how \in {"sealed", "flipped", "cut", "garbage"}
    /\ \E p \in MasterPasswords, s \in Salts :
         cx' = [cx EXCEPT !.dpw = p, !.dsalt = s,
                          !.res = decrypt(Encryption_new(p, s), cx.blob),
                          !.how = cx.how \o "+decrypt"]

NextCipher ==
    \/ CipherEncrypt
    \/ CipherEncryptRngFail
    \/ CipherFlip
    \/ CipherTruncate
    \/ CipherGarbage
    \/ CipherDecrypt

SpecCipher == InitCipher /\ [][NextCipher]_vars

(***************************************************************************)
(* One Encryption instance called again and again, as PasswordManager::new *)
(* (bootstrap), Database::create and Database::update call it under the    *)
(* key of one vault.  Here cx holds the instance and the calls made:       *)
(* [pw, salt, how, calls], each call [data, rnd, out].                     *)
(***************************************************************************)
MaxCalls == 3

CallData == {<<97>>, <<233, 115>>}

InitNonce ==
    /\ gen = genIdle
    /\ vaultIdle
    /\ storeIdle
    /\ \E p \in MasterPasswords, s \in Salts :
         cx = [pw |-> p, salt |-> s, how |-> "calls", calls |-> <<>>]

EncryptCall ==
    /\ Len(cx.calls) < MaxCalls
    /\ \E d \in CallData, n \in Nonces :
         cx' = [cx EXCEPT !.calls =
                   Append(@, [data |-> d, rnd |-> Ok(n),
                              out |-> encrypt(Encryption_new(cx.pw, cx.salt), d, Ok(n))])]
    /\ UNCHANGED <<vaultVars, storeVars, gen>>

EncryptCallRngFail ==
    /\ Len(cx.calls) < MaxCalls
    /\ \E d \in CallData :
         cx' = [cx EXCEPT !.calls =
                   Append(@, [data |-> d, rnd |-> RngFail,
                              out |-> encrypt(Encryption_new(cx.pw, cx.salt), d, RngFail)])]
    /\ UNCHANGED <<vaultVars, storeVars, gen>>

NextNonce ==
    \/ EncryptCall
    \/ EncryptCallRngFail

SpecNonce == InitNonce /\ [][NextNonce]_vars

(***************************************************************************)
(* PasswordManager::new (src/cli/password.rs)                              *)
(***************************************************************************)
\* Bootstrap branch, lines 44-71: what is written to master.key and what
\* the branch hands on.  salt_rnd and nonce_rnd are the two SystemRandom
\* draws; both unwrap()s panic on a failed draw.
new_bootstrap(password, salt_rnd, nonce_rnd) ==
    IF ~salt_rnd.ok THEN [result |-> "panic", file |-> Absent, salt |-> <<>>]
    ELSE
      LET new_salt == salt_rnd.val
          verification_data == encrypt(Encryption_new(password, new_salt), password, nonce_rnd)
      IN IF ~verification_data.ok
         THEN [result |-> "panic", file |-> Absent, salt |-> <<>>]
         ELSE [result |-> "ok", file |-> File(new_salt \o verification_data.val),
               salt |-> new_salt]

\* verify branch that falls through to the manager when decryption fails
new_verify_IgnoreDecryptError(file_content, password) ==
    IF Len(file_content) < SaltLen
    THEN [result |-> "panic", salt |-> <<>>, prompts |-> 0, db_opened |-> FALSE]
    ELSE
      LET file_salt == SubSeq(file_content, 1, SaltLen)
          verification_data == SubSeq(file_content, SaltLen + 1, Len(file_content))
          decrypted == decrypt(Encryption_new(password, file_salt), verification_data)
      IN IF decrypted.ok /\ decrypted.val # password
         THEN [result |-> "auth_error", salt |-> file_salt, prompts |-> 1, db_opened |-> FALSE]
         ELSE [result |-> "ok", salt |-> file_salt, prompts |-> 1, db_opened |-> TRUE]

\* verify branch that opens the entry store before it checks the password
new_verify_OpenFirst(file_content, password) ==
    IF Len(file_content) < SaltLen
    THEN [result |-> "panic", salt |-> <<>>, prompts |-> 0, db_opened |-> FALSE]
    ELSE
      LET file_salt == SubSeq(file_content, 1, SaltLen)
          verification_data == SubSeq(file_content, SaltLen + 1, Len(file_content))
          decrypted == decrypt(Encryption_new(password, file_salt), verification_data)
      IN IF decrypted.ok /\ decrypted.val = password
         THEN [result |-> "ok", salt |-> file_salt, prompts |-> 1, db_opened |-> TRUE]
         ELSE [result |-> "auth_error", salt |-> file_salt, prompts |-> 1, db_opened |-> TRUE]

\* Verify branch, lines 72-92, with the construction of lines 94-98:
\* file_content[..16] panics on a file shorter than the salt; the password
\* is prompted once; the Database is opened only after both checks passed.
new_verify(file_content, password) ==
    IF Len(file_content) < SaltLen
    THEN [result |-> "panic", salt |-> <<>>, prompts |-> 0, db_opened |-> FALSE]
    ELSE
      LET file_salt == SubSeq(file_content, 1, SaltLen)
          verification_data == SubSeq(file_content, SaltLen + 1, Len(file_content))
          decrypted == decrypt(Encryption_new(password, file_salt), verification_data)
      IN IF decrypted.ok
         THEN IF decrypted.val # password
              THEN [result |-> "auth_error", salt |-> file_salt, prompts |-> 1,
                    db_opened |-> FALSE]
              ELSE [result |-> "ok", salt |-> file_salt, prompts |-> 1, db_opened |-> TRUE]
         ELSE [result |-> "auth_error", salt |-> file_salt, prompts |-> 1,
               db_opened |-> FALSE]

\* a dispatch that always takes the bootstrap branch
master_file_exists_Never(file) == FALSE

\* master_file.exists(), line 44
master_file_exists(file) == file.exists

Manager(password, salt) ==
    [alive |-> TRUE, master_password |-> password, salt |-> salt,
     key |-> Encryption_new(password, salt).key]

\* PasswordManager::new when master.key does not exist
NewBootstrap ==
    /\ ~pm.alive
    /\ runs < MaxRuns
    /\ ~master_file_exists(master_file)
    /\ \E password \in MasterPasswords,
          salt_rnd \in {Ok(s) : s \in Salts} \cup {RngFail},
          nonce_rnd \in {Ok(n) : n \in Nonces} \cup {RngFail} :
         LET r == new_bootstrap(password, salt_rnd, nonce_rnd)
         IN /\ master_file' = r.file
            /\ run' = [branch |-> "bootstrap", password |-> password, prompts |-> 1,
                       db_opened |-> r.result = "ok", result |-> r.result]
            /\ pm' = IF r.result = "ok" THEN Manager(password, r.salt) ELSE NoManager
            /\ boot' = IF r.result = "ok"
                       THEN [done |-> TRUE, password |-> password, salt |-> r.salt]
                       ELSE boot
    /\ runs' = runs + 1
    /\ UNCHANGED <<cx, gen, storeVars>>

\* PasswordManager::new when master.key exists
NewVerify ==
    /\ ~pm.alive
    /\ runs < MaxRuns
    /\ master_file_exists(master_file)
    /\ \E password \in MasterPasswords :
         LET r == new_verify(master_file.content, password)
         IN /\ run' = [branch |-> "verify", password |-> password,
                       prompts |-> r.prompts, db_opened |-> r.db_opened,
                       result |-> r.result]
            /\ pm' = IF r.result = "ok" THEN Manager(password, r.salt) ELSE NoManager
    /\ runs' = runs + 1
    /\ UNCHANGED <<cx, gen, master_file, boot, storeVars>>

\* the process ends (main returns)
Exit ==
    /\ pm.alive
    /\ pm' = NoManager
    /\ UNCHANGED <<cx, gen, master_file, run, boot, runs, storeVars>>

InitVault ==
    /\ cx = cxIdle
    /\ gen = genIdle
    /\ vaultIdle
    /\ storeIdle

NextVault ==
    \/ NewBootstrap
    \/ NewVerify
    \/ Exit

SpecVault == InitVault /\ [][NextVault]_vars

\* master.key after something other than this program changed it: cut to
\* n bytes, or one bit of byte i flipped
Truncated(content, n) == SubSeq(content, 1, n)

DamagedFiles(content) ==
    {Truncated(content, n) : n \in {0, SaltLen - 1, SaltLen, SaltLen + NonceLen - 1,
                                   Len(content) - 1}}
    \cup {FlipBit(content, i, 0) : i \in {1, SaltLen + 1, SaltLen + NonceLen + 1,
                                        Len(content)}}

\* master.key is as the bootstrap branch wrote it
Intact ==
    /\ boot.done
    /\ \E n \in Nonces :
         new_bootstrap(boot.password, Ok(boot.salt), Ok(n)).file = master_file

\* the vault file is damaged between two runs of the program
Damage ==
    /\ ~pm.alive
    /\ Intact
    /\ \E content \in DamagedFiles(master_file.content) :
         master_file' = File(content)
    /\ run' = [NoRun EXCEPT !.branch = "damage"]
    /\ UNCHANGED <<cx, gen, pm, boot, runs, storeVars>>

NextVaultDamaged ==
    \/ NextVault
    \/ Damage

SpecVaultDamaged == InitVault /\ [][NextVaultDamaged]_vars

\* std::fs::write(&master_file, file_content), line 69, creates the file and
\* then writes the bytes: a process that is killed in between leaves the
\* file with the first n bytes
WriteCuts(content) == {0, SaltLen \div 2, SaltLen, Len(content) - 1}

\* PasswordManager::new, bootstrap branch, killed during the write
NewBootstrapKilled ==
    /\ ~pm.alive
    /\ runs < MaxRuns
    /\ ~master_file_exists(master_file)
    /\ \E password \in MasterPasswords, s \in Salts, n \in Nonces :
         LET r == new_bootstrap(password, Ok(s), Ok(n))
         IN \E cut \in WriteCuts(r.file.content) :
              /\ master_file' = File(Truncated(r.file.content, cut))
              /\ run' = [branch |-> "bootstrap", password |-> password, prompts |-> 1,
                         db_opened |-> FALSE, result |-> "killed"]
    /\ pm' = NoManager
    /\ runs' = runs + 1
    /\ UNCHANGED <<cx, gen, boot, storeVars>>

NextVaultKilled ==
    \/ NextVault
    \/ NewBootstrapKilled

SpecVaultKilled == InitVault /\ [][NextVaultKilled]_vars

(***************************************************************************)
(* Database (src/utils/database.rs).  A row of table passwords is a record *)
(* [id, service, username, password, url, notes, created_at, updated_at];  *)
(* a PasswordEntry is the same record with id an Option: <<>> is None,     *)
(* <<i>> is Some(i).  Instants are ticks; to_rfc3339 writes an instant in  *)
(* full, so the stored text stands for the instant itself.                 *)
(***************************************************************************)
None == <<>>
Some(i) == <<i>>

RowIds(rows) == {r.id : r \in rows}
RowById(rows, id) == CHOOSE r \in rows : r.id = id

\* INTEGER PRIMARY KEY without AUTOINCREMENT: one more than the largest
\* rowid in the table, 1 for an empty table
NextRowid(rows) ==
    IF rows = {} THEN 1
    ELSE (CHOOSE m \in RowIds(rows) : \A i \in RowIds(rows) : i <= m) + 1

\* the rows in rowid order, as a SELECT without ORDER BY walks the table
RECURSIVE InRowidOrder(_)
InRowidOrder(rows) ==
    IF rows = {} THEN <<>>
    ELSE LET first == CHOOSE r \in rows : \A q \in rows : r.id <= q.id
         IN <<first>> \o InRowidOrder(rows \ {first})

\* create that binds url and notes in each other's place
create_SwapUrlNotes(self, entry, rnd, t_created, t_updated) ==
    LET encrypted_password == encrypt(self.encryption, entry.password, rnd)
    IN IF ~encrypted_password.ok THEN [result |-> "panic", rows |-> self.rows]
       ELSE [result |-> "ok",
             rows |-> self.rows \cup
                 {[id |-> NextRowid(self.rows), service |-> entry.service,
                   username |-> entry.username,
                   password |-> STANDARD_encode(encrypted_password.val),
                   url |-> entry.notes, notes |-> entry.url,
                   created_at |-> t_created, updated_at |-> t_updated]}]

\* create that stores the secret as it came when encryption fails
create_PlaintextFallback(self, entry, rnd, t_created, t_updated) ==
    LET encrypted_password == encrypt(self.encryption, entry.password, rnd)
    IN [result |-> "ok",
        rows |-> self.rows \cup
            {[id |-> NextRowid(self.rows), service |-> entry.service,
              username |-> entry.username,
              password |-> IF encrypted_password.ok
                           THEN STANDARD_encode(encrypted_password.val)
                           ELSE entry.password,
              url |-> entry.url, notes |-> entry.notes,
              created_at |-> t_created, updated_at |-> t_updated]}]

\* Database::create: encrypt(..).unwrap() panics when encryption fails;
\* t_created and t_updated are the two Utc::now() readings
create(self, entry, rnd, t_created, t_updated) ==
    LET encrypted_password == encrypt(self.encryption, entry.password, rnd)
    IN IF ~encrypted_password.ok THEN [result |-> "panic", rows |-> self.rows]
       ELSE [result |-> "ok",
             rows |-> self.rows \cup
                 {[id |-> NextRowid(self.rows), service |-> entry.service,
                   username |-> entry.username,
                   password |-> STANDARD_encode(encrypted_password.val),
                   url |-> entry.url, notes |-> entry.notes,
                   created_at |-> t_created, updated_at |-> t_updated]}]

\* one row mapped by the closure of read: both unwrap()s panic
ReadRow(self, row) ==
    LET d_password == STANDARD_decode(row.password)
    IN IF ~d_password.ok THEN Err
       ELSE LET password == decrypt(self.encryption, d_password.val)
            IN IF ~password.ok THEN Err
               ELSE Ok([id |-> Some(row.id), service |-> row.service,
                        username |-> row.username, password |-> password.val,
                        url |-> row.url, notes |-> row.notes,
                        created_at |-> row.created_at,
                        updated_at |-> row.updated_at])

\* read that leaves out the rows it cannot decode or decrypt
read_SkipBad(self) ==
    LET ordered == InRowidOrder({r \in self.rows : ReadRow(self, r).ok})
    IN [result |-> "ok", val |-> [i \in 1 .. Len(ordered) |-> ReadRow(self, ordered[i]).val]]

\* Database::read
read(self) ==
    LET ordered == InRowidOrder(self.rows)
        entries == [i \in 1 .. Len(ordered) |-> ReadRow(self, ordered[i])]
    IN IF \E i \in 1 .. Len(ordered) : ~entries[i].ok
       THEN [result |-> "panic", val |-> <<>>]
       ELSE [result |-> "ok", val |-> [i \in 1 .. Len(ordered) |-> entries[i].val]]

\* update that also rewrites created_at
update_TouchCreated(self, entry, rnd, t_updated) ==
    LET encrypted_password == encrypt(self.encryption, entry.password, rnd)
    IN IF ~encrypted_password.ok THEN [result |-> "panic", rows |-> self.rows]
       ELSE [result |-> "ok",
             rows |-> {IF Some(r.id) = entry.id
                       THEN [r EXCEPT !.service = entry.service,
                                      !.username = entry.username,
                                      !.password = STANDARD_encode(encrypted_password.val),
                                      !.url = entry.url,
                                      !.notes = entry.notes,
                                      !.created_at = t_updated,
                                      !.updated_at = t_updated]
                       ELSE r : r \in self.rows}]

\* the row update writes over a row r of the table
Updated(r, entry, encrypted_password, t_updated) ==
    [r EXCEPT !.service = entry.service,
              !.username = entry.username,
              !.password = STANDARD_encode(encrypted_password.val),
              !.url = entry.url,
              !.notes = entry.notes,
              !.updated_at = t_updated]

\* update that inserts the entry when its id matches no row
update_Upsert(self, entry, rnd, t_updated) ==
    LET encrypted_password == encrypt(self.encryption, entry.password, rnd)
    IN IF ~encrypted_password.ok THEN [result |-> "panic", rows |-> self.rows]
       ELSE IF entry.id # None /\ entry.id[1] \notin RowIds(self.rows)
       THEN [result |-> "ok",
             rows |-> self.rows \cup
                 {[id |-> entry.id[1], service |-> entry.service,
                   username |-> entry.username,
                   password |-> STANDARD_encode(encrypted_password.val),
                   url |-> entry.url, notes |-> entry.notes,
                   created_at |-> t_updated, updated_at |-> t_updated]}]
       ELSE [result |-> "ok",
             rows |-> {IF Some(r.id) = entry.id
                       THEN Updated(r, entry, encrypted_password, t_updated)
                       ELSE r : r \in self.rows}]

\* update whose WHERE clause lets a NULL id match every row
update_NullMatchesAll(self, entry, rnd, t_updated) ==
    LET encrypted_password == encrypt(self.encryption, entry.password, rnd)
    IN IF ~encrypted_password.ok THEN [result |-> "panic", rows |-> self.rows]
       ELSE [result |-> "ok",
             rows |-> {IF Some(r.id) = entry.id \/ entry.id = None
                       THEN Updated(r, entry, encrypted_password, t_updated)
                       ELSE r : r \in self.rows}]

\* update with no WHERE clause
update_All(self, entry, rnd, t_updated) ==
    LET encrypted_password == encrypt(self.encryption, entry.password, rnd)
    IN IF ~encrypted_password.ok THEN [result |-> "panic", rows |-> self.rows]
       ELSE [result |-> "ok",
             rows |-> {Updated(r, entry, encrypted_password, t_updated) : r \in self.rows}]

\* Database::update: WHERE id = ?7 with the entry's own id; a None id binds
\* NULL, which equals no rowid
update(self, entry, rnd, t_updated) ==
    LET encrypted_password == encrypt(self.encryption, entry.password, rnd)
    IN IF ~encrypted_password.ok THEN [result |-> "panic", rows |-> self.rows]
       ELSE [result |-> "ok",
             rows |-> {IF Some(r.id) = entry.id
                       THEN [r EXCEPT !.service = entry.service,
                                      !.username = entry.username,
                                      !.password = STANDARD_encode(encrypted_password.val),
                                      !.url = entry.url,
                                      !.notes = entry.notes,
                                      !.updated_at = t_updated]
                       ELSE r : r \in self.rows}]

\* delete that removes the rows below the given id
delete_Below(self, id) ==
    [result |-> "ok", rows |-> {r \in self.rows : r.id >= id}]

\* Database::delete
delete(self, id) ==
    [result |-> "ok", rows |-> {r \in self.rows : r.id # id}]

\* search that decrypts the password column the way read does
search_Decrypted(self, query) ==
    LET search_pattern == <<Percent>> \o query \o <<Percent>>
        hits == {r \in self.rows :
                    Like(search_pattern, r.service) \/ Like(search_pattern, r.username)}
        ordered == InRowidOrder(hits)
    IN [result |-> "ok",
        val |-> [i \in 1 .. Len(ordered) |-> ReadRow(self, ordered[i]).val]]

\* Database::search: the row as stored, password column included
search(self, query) ==
    LET search_pattern == <<Percent>> \o query \o <<Percent>>
        hits == {r \in self.rows :
                    Like(search_pattern, r.service) \/ Like(search_pattern, r.username)}
        ordered == InRowidOrder(hits)
    IN [result |-> "ok",
        val |-> [i \in 1 .. Len(ordered) |->
                    [ordered[i] EXCEPT !.id = Some(ordered[i].id)]]]

\* Database::read_by_id, called by show_password: the row with that id as
\* read returns it, a not-found error when no row has the id
read_by_id(self, id) ==
    IF id \notin RowIds(self.rows) THEN [result |-> "not_found", val |-> <<>>]
    ELSE LET entry == ReadRow(self, RowById(self.rows, id))
         IN IF ~entry.ok THEN [result |-> "panic", val |-> <<>>]
            ELSE [result |-> "ok", val |-> <<entry.val>>]

(***************************************************************************)
(* Inputs of the entry store                                               *)
(***************************************************************************)
\* "b", "a", "_", "%"
Queries == {<<98>>, <<97>>, <<Underscore>>, <<Percent>>}

Ids == 1 .. MaxRows + 1

\* PasswordEntry values handed to create and update: "Ab" / U+00E9 "s" and
\* "c_" / "s", each for user "u" at url "x" with empty notes
EntryFields ==
    {[service |-> <<65, 98>>, username |-> <<117>>, password |-> <<233, 115>>,
      url |-> <<120>>, notes |-> <<>>],
     [service |-> <<99, 95>>, username |-> <<117>>, password |-> <<115>>,
      url |-> <<120>>, notes |-> <<>>]}

Entries(ids) ==
    {f @@ [id |-> i, created_at |-> 0, updated_at |-> 0] : f \in EntryFields, i \in ids}

\* a Utc::now() reading: not before the previous one
Readings(t) == {u \in {t, t + 1} : u <= MaxTime}

StoreKey == Encryption_new(<<112, 119>>, [i \in 1 .. SaltLen |-> 0])

\* what SystemRandom::fill delivers inside encrypt
Draws == {Ok([i \in 1 .. NonceLen |-> i]), RngFail}

\* a panic ends the process that holds the Database
Running == last.result # "panic"

Create ==
    /\ Running
    /\ out = NoCall
    /\ nops < MaxOps
    /\ Cardinality(db.rows) < MaxRows
    /\ \E entry \in Entries({None}), rnd \in Draws,
          t1 \in Readings(now) :
         \E t2 \in Readings(t1) :
           LET r == create(db, entry, rnd, t1, t2)
           IN /\ db' = [db EXCEPT !.rows = r.rows]
              /\ now' = t2
              /\ last' = [op |-> "create", entry |-> entry,
                          id |-> NextRowid(db.rows), existed |-> FALSE,
                          before |-> <<>>, result |-> r.result]
    /\ out' = out
    /\ nops' = nops + 1
    /\ UNCHANGED <<cx, gen, vaultVars>>

Update ==
    /\ Running
    /\ out = NoCall
    /\ nops < MaxOps
    /\ \E entry \in Entries({None} \cup {Some(i) : i \in Ids}), rnd \in Draws,
          t \in Readings(now) :
         LET r == update(db, entry, rnd, t)
             hit == {x \in db.rows : Some(x.id) = entry.id}
         IN /\ db' = [db EXCEPT !.rows = r.rows]
            /\ now' = t
            /\ last' = [op |-> "update", entry |-> entry,
                        id |-> IF entry.id = None THEN 0 ELSE entry.id[1],
                        existed |-> hit # {},
                        before |-> IF hit = {} THEN <<>> ELSE <<CHOOSE x \in hit : TRUE>>,
                        result |-> r.result]
    /\ out' = out
    /\ nops' = nops + 1
    /\ UNCHANGED <<cx, gen, vaultVars>>

Delete ==
    /\ Running
    /\ out = NoCall
    /\ nops < MaxOps
    /\ \E id \in Ids :
         LET r == delete(db, id)
         IN /\ db' = [db EXCEPT !.rows = r.rows]
            /\ last' = [op |-> "delete", entry |-> <<>>, id |-> id,
                        existed |-> id \in RowIds(db.rows),
                        before |-> IF id \in RowIds(db.rows)
                                   THEN <<RowById(db.rows, id)>> ELSE <<>>,
                        result |-> r.result]
    /\ out' = out
    /\ nops' = nops + 1
    /\ UNCHANGED <<cx, gen, vaultVars, now>>

Read ==
    /\ Running
    /\ out = NoCall
    /\ out' = [op |-> "read", arg |-> <<>>] @@ read(db)
    /\ UNCHANGED <<cx, gen, vaultVars, db, now, last, nops>>

ReadById ==
    /\ Running
    /\ out = NoCall
    /\ \E id \in Ids :
         out' = [op |-> "read_by_id", arg |-> id] @@ read_by_id(db, id)
    /\ UNCHANGED <<cx, gen, vaultVars, db, now, last, nops>>

Search ==
    /\ Running
    /\ out = NoCall
    /\ \E query \in Queries :
         out' = [op |-> "search", arg |-> query] @@ search(db, query)
    /\ UNCHANGED <<cx, gen, vaultVars, db, now, last, nops>>

\* the caller has taken the result of its query
Return ==
    /\ out # NoCall
    /\ out' = NoCall
    /\ UNCHANGED <<cx, gen, vaultVars, db, now, last, nops>>

InitStore ==
    /\ cx = cxIdle
    /\ gen = genIdle
    /\ vaultIdle
    /\ db = [rows |-> {}, encryption |-> StoreKey]
    /\ now = 0
    /\ last = NoCall
    /\ out = NoCall
    /\ nops = 0

NextStore ==
    \/ Create
    \/ Update
    \/ Delete
    \/ Read
    \/ ReadById
    \/ Search
    \/ Return

SpecStore == InitStore /\ [][NextStore]_vars

(***************************************************************************)
(* The entry store opened on a passwords.db that earlier runs left behind: *)
(* rows sealed under the key of another master password (master.key was    *)
(* removed and bootstrapped anew), rows sealed under the present key, and  *)
(* password columns changed outside the program.                           *)
(***************************************************************************)
OtherKey == Encryption_new(<<113, 119>>, [i \in 1 .. SaltLen |-> 0])

EntrySeqs(n) == UNION {[1 .. k -> Entries({None})] : k \in 0 .. n}

\* the rows after create was called for each entry in turn
RECURSIVE Filled(_, _)
Filled(self, entries) ==
    IF entries = <<>> THEN self
    ELSE Filled([self EXCEPT !.rows = create(self, Head(entries),
                                             CHOOSE d \in Draws : d.ok, 0, 0).rows],
                Tail(entries))

Spoilings == {"none", "not_base64", "cut", "short"}

Spoilt(row, how) ==
    LET blob == STANDARD_decode(row.password).val
    IN CASE how = "none" -> row
         [] how = "not_base64" -> [row EXCEPT !.password = <<42>>]
         [] how = "cut" ->
                [row EXCEPT !.password = STANDARD_encode(SubSeq(blob, 1, Len(blob) - 1))]
         [] how = "short" ->
                [row EXCEPT !.password = STANDARD_encode(SubSeq(blob, 1, NonceLen - 1))]

InitReopen ==
    /\ cx = cxIdle
    /\ gen = genIdle
    /\ vaultIdle
    /\ \E before \in EntrySeqs(MaxRows), after \in EntrySeqs(MaxRows) :
         /\ Len(before) + Len(after) <= MaxRows
         /\ LET old == Filled([rows |-> {}, encryption |-> OtherKey], before)
                all == Filled([rows |-> old.rows, encryption |-> StoreKey], after)
            IN \E how \in [RowIds(all.rows) -> Spoilings] :
                 db = [rows |-> {Spoilt(r, how[r.id]) : r \in all.rows},
                       encryption |-> StoreKey]
    /\ now = 0
    /\ last = NoCall
    /\ out = NoCall
    /\ nops = 0

NextReopen ==
    \/ Read
    \/ ReadById
    \/ Search
    \/ Return
    \/ Delete

SpecReopen == InitReopen /\ [][NextReopen]_vars

(***************************************************************************)
(* Password generator and validators (src/cli/password.rs).  A char is its *)
(* Unicode scalar value; is_lowercase and is_uppercase are the Unicode     *)
(* properties over Basic Latin and Latin-1, every scalar value above 255   *)
(* that the model feeds in is caseless.                                    *)
(***************************************************************************)
MaxArg == 66
MaxDigits == 3
MaxPw == 4
FreeDraws == 3
MaxDepth == 1

\* b"abcdefghijklmnopqrstuvwxyzABCDEFGHIJKLMNOPQRSTUVWXYZ0123456789!@#$%^&*()-_=+"
charset ==
    [i \in 1 .. 26 |-> 96 + i] \o [i \in 1 .. 26 |-> 64 + i] \o [i \in 1 .. 10 |-> 47 + i]
    \o <<33, 64, 35, 36, 37, 94, 38, 42, 40, 41, 45, 95, 61, 43>>

is_lowercase(c) ==
    \/ c \in 97 .. 122
    \/ c \in {170, 181, 186}
    \/ c \in 223 .. 246
    \/ c \in 248 .. 255

is_uppercase(c) ==
    \/ c \in 65 .. 90
    \/ c \in 192 .. 214
    \/ c \in 216 .. 222

is_ascii_digit(c) == c \in 48 .. 57

NoFlags == [has_lower |-> FALSE, has_upper |-> FALSE, has_digit |-> FALSE,
            has_special |-> FALSE]

\* the body of the for loop of is_valid_password for one char
Classify(f, c) ==
    IF is_lowercase(c) THEN [f EXCEPT !.has_lower = TRUE]
    ELSE IF is_uppercase(c) THEN [f EXCEPT !.has_upper = TRUE]
    ELSE IF is_ascii_digit(c) THEN [f EXCEPT !.has_digit = TRUE]
    ELSE [f EXCEPT !.has_special = TRUE]

RECURSIVE Scan(_, _)
Scan(password, f) ==
    IF f.has_lower \in BOOLEAN /\ password # <<>>
    THEN Scan(Tail(password), Classify(f, Head(password)))
    ELSE f

\* is_valid_password without the fourth class
is_valid_password_NoSpecial(password) ==
    LET f == Scan(password, NoFlags)
    IN f.has_lower /\ f.has_upper /\ f.has_digit

\* PasswordManager::is_valid_password
is_valid_password(password) ==
    LET f == Scan(password, NoFlags)
    IN f.has_lower /\ f.has_upper /\ f.has_digit /\ f.has_special

RECURSIVE DecimalValue(_, _)
DecimalValue(digits, acc) ==
    IF acc >= 0 /\ digits # <<>>
    THEN DecimalValue(Tail(digits), (acc * 10) + (Head(digits) - 48))
    ELSE acc

\* str::parse::<usize>: an optional '+', then one or more ASCII digits; the
\* inputs of the model are too short to overflow a usize
parse_usize(src) ==
    IF src = <<>> THEN Err
    ELSE LET digits == IF src[1] = 43 THEN Tail(src) ELSE src
         IN IF digits = <<>> THEN Err
            ELSE IF \E i \in 1 .. Len(digits) : digits[i] \notin 48 .. 57 THEN Err
            ELSE Ok(DecimalValue(digits, 0))

\* usize::to_string
RECURSIVE to_string(_)
to_string(n) ==
    IF n < 10 THEN <<48 + n>> ELSE to_string(n \div 10) \o <<48 + (n % 10)>>

\* length check with both ends of the range left out
is_valid_password_length_Exclusive(length) ==
    LET parsed == parse_usize(length)
    IN IF parsed.ok THEN parsed.val \in 9 .. 63 ELSE FALSE

\* PasswordManager::is_valid_password_length
is_valid_password_length(length) ==
    LET parsed == parse_usize(length)
    IN IF parsed.ok THEN parsed.val \in 8 .. 64 ELSE FALSE

\* generate_password(Some(length)), lines 118-122 and 148-149: the length
\* check, then an empty String
generate_password_begin(length, depth) ==
    IF ~is_valid_password_length(to_string(length))
    THEN [pc |-> "returned", call |-> "generate_password", arg |-> length,
          input |-> <<>>, password |-> <<>>, drawn |-> 0, depth |-> depth,
          result |-> "invalid_length"]
    ELSE [pc |-> "draw", call |-> "generate_password", arg |-> length,
          input |-> <<>>, password |-> <<>>, drawn |-> 0, depth |-> depth,
          result |-> "none"]

\* one turn of the for loop, lines 152-155
generate_password_push(password, byte) ==
    LET index == byte % Len(charset)
    IN Append(password, charset[index + 1])

\* the end of generate_password that returns whatever was drawn
generate_password_end_NoCheck(password) == "ok"

\* lines 157-161: return the password or call generate_password again
generate_password_end(password) ==
    IF is_valid_password(password) THEN "ok" ELSE "again"

\* what rng.fill(&mut byte) delivers for the character at position pos of a
\* password of the given length: any of DrawBytes on the last FreeDraws
\* positions, the byte 0 before them
DrawBytes == {0, 26, 52, 62, 255}

DrawsAt(pos, length) ==
    IF pos > length - FreeDraws THEN DrawBytes ELSE {0}

\* '+', '-', ' ', and the digits that spell the ends of the range
LengthChars == {43, 45, 32, 48, 52, 53, 54, 55, 56}
LengthInputs == StringsUpTo(LengthChars, MaxDigits)

\* a, A, 0, !, U+00E9, U+00C9, U+0663 (ARABIC-INDIC DIGIT THREE)
ClassChars == {97, 65, 48, 33, 233, 201, 1635}
CandidatePasswords == StringsUpTo(ClassChars, MaxPw)

CheckLength ==
    /\ gen.pc = "idle"
    /\ \E input \in LengthInputs :
         gen' = [genIdle EXCEPT !.pc = "returned",
                                !.call = "is_valid_password_length",
                                !.input = input,
                                !.result = IF is_valid_password_length(input)
                                           THEN "true" ELSE "false"]
    /\ UNCHANGED <<cx, vaultVars, storeVars>>

CheckPassword ==
    /\ gen.pc = "idle"
    /\ \E password \in CandidatePasswords :
         gen' = [genIdle EXCEPT !.pc = "returned",
                                !.call = "is_valid_password",
                                !.input = password,
                                !.result = IF is_valid_password(password)
                                           THEN "true" ELSE "false"]
    /\ UNCHANGED <<cx, vaultVars, storeVars>>

Generate ==
    /\ gen.pc = "idle"
    /\ \E length \in 0 .. MaxArg : gen' = generate_password_begin(length, 0)
    /\ UNCHANGED <<cx, vaultVars, storeVars>>

GenerateDraw ==
    /\ gen.pc = "draw"
    /\ Len(gen.password) < gen.arg
    /\ \E byte \in DrawsAt(Len(gen.password) + 1, gen.arg) :
         gen' = [gen EXCEPT !.password = generate_password_push(gen.password, byte),
                            !.drawn = gen.drawn + 1]
    /\ UNCHANGED <<cx, vaultVars, storeVars>>

\* rng.fill(&mut byte).unwrap() when the system source fails
GenerateDrawRngFail ==
    /\ gen.pc = "draw"
    /\ Len(gen.password) < gen.arg
    /\ gen' = [gen EXCEPT !.pc = "returned", !.password = <<>>, !.result = "panic"]
    /\ UNCHANGED <<cx, vaultVars, storeVars>>

GenerateReturn ==
    /\ gen.pc = "draw"
    /\ Len(gen.password) = gen.arg
    /\ generate_password_end(gen.password) = "ok"
    /\ gen' = [gen EXCEPT !.pc = "returned", !.result = "ok"]
    /\ UNCHANGED <<cx, vaultVars, storeVars>>

GenerateAgain ==
    /\ gen.pc = "draw"
    /\ Len(gen.password) = gen.arg
    /\ generate_password_end(gen.password) = "again"
    /\ gen.depth < MaxDepth
    /\ gen' = generate_password_begin(gen.arg, gen.depth + 1)
    /\ UNCHANGED <<cx, vaultVars, storeVars>>

\* the caller has taken the result
GenDone ==
    /\ gen.pc = "returned"
    /\ gen' = genIdle
    /\ UNCHANGED <<cx, vaultVars, storeVars>>

InitGen ==
    /\ cx = cxIdle
    /\ gen = genIdle
    /\ vaultIdle
    /\ storeIdle

NextGen ==
    \/ CheckLength
    \/ CheckPassword
    \/ Generate
    \/ GenerateDraw
    \/ GenerateDrawRngFail
    \/ GenerateReturn
    \/ GenerateAgain
    \/ GenDone

SpecGen == InitGen /\ [][NextGen]_vars

(***************************************************************************)
(* generate_password retries by calling itself (line 161): every retry is  *)
(* one more frame on the stack, below the String and the rng of the frames *)
(* that wait for it.  MaxDepth stands for the number of nested calls the   *)
(* stack of the thread holds; the call after that overflows the stack and  *)
(* the process is aborted.  The random source is fair: on each of the last *)
(* FreeDraws positions it again and again delivers a byte that keeps the   *)
(* candidate on the way to a password with all four classes.               *)
(***************************************************************************)
Missing(password) ==
    LET f == Scan(password, NoFlags)
    IN (IF f.has_lower THEN 0 ELSE 1) + (IF f.has_upper THEN 0 ELSE 1)
       + (IF f.has_digit THEN 0 ELSE 1) + (IF f.has_special THEN 0 ELSE 1)

OnTrack(password, length) == Missing(password) <= length - Len(password)

\* the recursive call of line 161 when the stack has no room for its frame
GenerateOverflow ==
    /\ gen.pc = "draw"
    /\ Len(gen.password) = gen.arg
    /\ generate_password_end(gen.password) = "again"
    /\ gen.depth = MaxDepth
    /\ gen' = [gen EXCEPT !.pc = "aborted", !.result = "stack_overflow"]
    /\ UNCHANGED <<cx, vaultVars, storeVars>>

\* a draw, j positions before the end, after which all four classes can
\* still be had
LuckyDraw(j) ==
    /\ GenerateDraw
    /\ gen.arg - Len(gen.password) = j
    /\ OnTrack(gen'.password, gen.arg)

NextGenFair ==
    \/ Generate
    \/ GenerateDraw
    \/ GenerateReturn
    \/ GenerateAgain
    \/ GenerateOverflow
    \/ GenDone

SpecGenFair ==
    /\ InitGen
    /\ [][NextGenFair]_vars
    /\ WF_vars(GenerateDraw)
    /\ WF_vars(GenerateReturn)
    /\ WF_vars(GenerateAgain)
    /\ WF_vars(GenerateOverflow)
    /\ \A j \in 1 .. FreeDraws : SF_vars(LuckyDraw(j))

(***************************************************************************)
(* Claims about the cipher (SpecCipher)                                    *)
(***************************************************************************)
SameKeyInputs == cx.dpw = cx.pw /\ cx.dsalt = cx.salt

KeysDiffer == Encryption_new(cx.dpw, cx.dsalt).key # Encryption_new(cx.pw, cx.salt).key

\* C1: decrypting a blob produced by encrypt, under the key derived from the
\* same password and salt, succeeds and returns exactly the plaintext.
C1_RoundTrip ==
    (cx.how = "sealed+decrypt" /\ SameKeyInputs)
        => (cx.res.ok /\ cx.res.val = cx.data)

C1_Witness ==
    /\ cx.how = "sealed+decrypt"
    /\ SameKeyInputs
    /\ cx.data = <<233, 97>>
    /\ cx.res.ok

\* C2: a blob produced by encrypt under one key never decrypts under a
\* different key; the keys differ in particular when only the password or
\* only the salt differs.
C2_KeyIsolation ==
    cx.how = "sealed+decrypt" =>
        /\ KeysDiffer => ~cx.res.ok
        /\ (cx.dpw # cx.pw /\ cx.dsalt = cx.salt) => (KeysDiffer /\ ~cx.res.ok)
        /\ (cx.dpw = cx.pw /\ cx.dsalt # cx.salt) => (KeysDiffer /\ ~cx.res.ok)

C2_Witness ==
    /\ cx.how = "sealed+decrypt"
    /\ cx.dpw = cx.pw
    /\ cx.dsalt # cx.salt
    /\ ~cx.res.ok
    /\ cx.res.opened

\* C3: after any single bit of a blob produced by encrypt is flipped (nonce,
\* ciphertext body or tag), decrypt under the sealing key returns an error.
C3_TamperDetected ==
    (cx.how = "flipped+decrypt" /\ SameKeyInputs) => ~cx.res.ok

C3_Witness ==
    /\ cx.how = "flipped+decrypt"
    /\ SameKeyInputs
    /\ Len(cx.data) > 0
    /\ LET sealed == encrypt(Encryption_new(cx.pw, cx.salt), cx.data,
                             Ok(SubSeq(cx.blob, 1, NonceLen))).val
       IN /\ SubSeq(cx.blob, 1, NonceLen) = SubSeq(sealed, 1, NonceLen)
          /\ cx.blob[NonceLen + 1] # sealed[NonceLen + 1]
    /\ ~cx.res.ok

\* C4: decrypt returns an error for every input shorter than the 12-byte
\* nonce, under any key, and does not attempt the AEAD open.
C4_ShortInputRejected ==
    (cx.how \in {"cut+decrypt", "garbage+decrypt"} /\ Len(cx.blob) < NonceLen)
        => (~cx.res.ok /\ ~cx.res.opened)

C4_Witness ==
    /\ cx.how = "garbage+decrypt"
    /\ Len(cx.blob) = 8
    /\ ~cx.res.ok

(***************************************************************************)
(* Claims about the nonces of successive encrypt calls (SpecNonce)         *)
(***************************************************************************)
NonceOf(call) == SubSeq(call.out.val, 1, NonceLen)

\* C25 as stated: no two encrypt calls made under the same key use the
\* same 12-byte nonce.
C25_NoNonceReuse ==
    \A i, j \in 1 .. Len(cx.calls) :
        (i < j /\ cx.calls[i].out.ok /\ cx.calls[j].out.ok) =>
            NonceOf(cx.calls[i]) # NonceOf(cx.calls[j])

\* C25 as the code has it: every encrypt call that seals uses as its nonce
\* the 12 bytes it drew from the random source in that call, and a call
\* whose draw failed seals nothing; so two calls under the same key share a
\* nonce only when the random source delivered the same 12 bytes twice.
C25_NonceIsTheDraw ==
    /\ \A i \in 1 .. Len(cx.calls) :
         /\ cx.calls[i].out.ok <=> cx.calls[i].rnd.ok
         /\ cx.calls[i].out.ok =>
                /\ Len(cx.calls[i].out.val) =
                       NonceLen + Len(as_bytes(cx.calls[i].data)) + TagLen
                /\ NonceOf(cx.calls[i]) = cx.calls[i].rnd.val
    /\ \A i, j \in 1 .. Len(cx.calls) :
         (i < j /\ cx.calls[i].out.ok /\ cx.calls[j].out.ok
                /\ cx.calls[i].rnd # cx.calls[j].rnd) =>
             NonceOf(cx.calls[i]) # NonceOf(cx.calls[j])

C25_Witness ==
    /\ Len(cx.calls) = MaxCalls
    /\ cx.calls[1].out.ok
    /\ cx.calls[2].out.ok
    /\ ~cx.calls[3].out.ok
    /\ cx.calls[1].data = cx.calls[2].data
    /\ cx.calls[1].rnd # cx.calls[2].rnd
    /\ NonceOf(cx.calls[1]) # NonceOf(cx.calls[2])

(***************************************************************************)
(* Claims about the master vault (SpecVault)                               *)
(***************************************************************************)
\* C5: once the vault is bootstrapped with master password P, a later
\* unlock with candidate P succeeds and a later unlock with any other
\* candidate fails with the authentication error.
C5_UnlockAfterBootstrap ==
    (boot.done /\ run.branch = "verify") =>
        IF run.password = boot.password
        THEN run.result = "ok"
        ELSE run.result = "auth_error" /\ ~pm.alive

C5_Witness ==
    /\ boot.done
    /\ run.branch = "verify"
    /\ run.password = boot.password
    /\ run.result = "ok"
    /\ pm.alive
    /\ runs = MaxRuns

\* C6: in the verify branch the manager is built and the entry store opened
\* only if the verification ciphertext decrypts to the candidate; otherwise
\* one candidate was prompted, the store was not opened, no manager exists
\* and the authentication error is returned.
C6_UnlockOnlyOnExactMatch ==
    run.branch = "verify" =>
        LET file_salt == SubSeq(master_file.content, 1, SaltLen)
            verification_data ==
                SubSeq(master_file.content, SaltLen + 1, Len(master_file.content))
            decrypted == decrypt(Encryption_new(run.password, file_salt), verification_data)
            matches == decrypted.ok /\ decrypted.val = run.password
        IN /\ run.result = "ok" <=> matches
           /\ run.db_opened <=> matches
           /\ pm.alive => matches
           /\ ~matches => /\ run.result = "auth_error"
                          /\ run.prompts = 1
                          /\ ~run.db_opened
                          /\ ~pm.alive

C6_Witness ==
    /\ run.branch = "verify"
    /\ run.result = "auth_error"
    /\ run.prompts = 1
    /\ ~run.db_opened
    /\ ~pm.alive

\* C16: once master.key exists no run of PasswordManager::new rewrites it;
\* a salt is drawn and the file written only by the bootstrap branch, taken
\* when the file is absent.
C16_VaultFileWrittenOnce ==
    [][/\ master_file.exists => master_file' = master_file
       /\ master_file' # master_file =>
              /\ run'.branch = "bootstrap"
              /\ ~master_file.exists
              /\ SubSeq(master_file'.content, 1, SaltLen) = boot'.salt]_vars

C16_Witness ==
    /\ boot.done
    /\ runs = MaxRuns
    /\ run.branch = "verify"
    /\ run.result = "ok"
    /\ run.password = boot.password
    /\ master_file.exists
    /\ SubSeq(master_file.content, 1, SaltLen) = boot.salt

\* C17: a run that finds master.key damaged (cut short or with changed
\* bytes) ends with the authentication error, for every candidate; it does
\* not unlock and does not end any other way.
C17_DamagedVaultIsAuthError ==
    (run.branch = "verify" /\ boot.done /\ ~Intact) =>
        /\ run.result = "auth_error"
        /\ ~pm.alive

\* C18: master.key is either absent or holds the whole salt followed by the
\* whole verification ciphertext of some master password, also after a
\* bootstrap that was interrupted while writing.
C18_VaultFileWhole ==
    master_file.exists =>
        /\ Len(master_file.content) >= SaltLen + NonceLen + TagLen
        /\ \E password \in MasterPasswords :
             LET opened == decrypt(Encryption_new(password,
                                                  SubSeq(master_file.content, 1, SaltLen)),
                                   SubSeq(master_file.content, SaltLen + 1,
                                          Len(master_file.content)))
             IN opened.ok /\ opened.val = password

(***************************************************************************)
(* Claims about the entry store (SpecStore)                                *)
(***************************************************************************)
SameFields(got, entry) ==
    /\ got.service = entry.service
    /\ got.username = entry.username
    /\ got.password = entry.password
    /\ got.url = entry.url
    /\ got.notes = entry.notes

HasEntry(entries, id, entry) ==
    \E i \in 1 .. Len(entries) : entries[i].id = Some(id) /\ SameFields(entries[i], entry)

\* C7: after create(r), read and read_by_id with the assigned id return a
\* record whose service, username, url and notes are those of r and whose
\* secret is r's plaintext secret.
C7_CreateReadRoundTrip ==
    (last.op = "create" /\ last.result = "ok") =>
        /\ out.op = "read" => (out.result = "ok" /\ HasEntry(out.val, last.id, last.entry))
        /\ (out.op = "read_by_id" /\ out.arg = last.id) =>
               (out.result = "ok" /\ HasEntry(out.val, last.id, last.entry))

C7_Witness ==
    /\ last.op = "create"
    /\ last.result = "ok"
    /\ last.entry.password = <<233, 115>>
    /\ out.op = "read"
    /\ out.result = "ok"
    /\ Len(out.val) = 2
    /\ HasEntry(out.val, last.id, last.entry)

\* C8: update of an existing record keeps its created_at, replaces service,
\* username, url, notes and secret by those of the entry given, and sets
\* updated_at to an instant not before its previous value (and not before
\* created_at), whatever updates came before.
C8_UpdateSemantics ==
    (last.op = "update" /\ last.result = "ok" /\ last.existed) =>
        /\ last.id \in RowIds(db.rows)
        /\ LET row == RowById(db.rows, last.id)
               old == last.before[1]
               got == ReadRow(db, row)
           IN /\ row.created_at = old.created_at
              /\ row.updated_at >= old.updated_at
              /\ row.updated_at >= row.created_at
              /\ got.ok
              /\ SameFields(got.val, last.entry)

C8_Witness ==
    /\ last.op = "update"
    /\ last.result = "ok"
    /\ last.existed
    /\ RowById(db.rows, last.id).updated_at > last.before[1].updated_at
    /\ RowById(db.rows, last.id).created_at = last.before[1].created_at
    /\ last.before[1].service # last.entry.service

\* C9: after delete(id) of an existing record, read_by_id(id) returns the
\* not-found error and read returns no record with that id.
C9_DeleteSemantics ==
    (last.op = "delete" /\ last.result = "ok" /\ last.existed) =>
        /\ last.id \notin RowIds(db.rows)
        /\ (out.op = "read_by_id" /\ out.arg = last.id) => out.result = "not_found"
        /\ out.op = "read" =>
               (out.result = "ok"
                /\ \A i \in 1 .. Len(out.val) : out.val[i].id # Some(last.id))

C9_Witness ==
    /\ last.op = "delete"
    /\ last.existed
    /\ db.rows # {}
    /\ out.op = "read_by_id"
    /\ out.arg = last.id
    /\ out.result = "not_found"

\* C10: search(q) returns only records whose service or username contains
\* q as a substring, also when q holds '%' or '_' or differs from the field
\* only in letter case.
C10_SearchOnlySubstringMatches ==
    out.op = "search" =>
        \A i \in 1 .. Len(out.val) :
            contains(out.val[i].service, out.arg) \/ contains(out.val[i].username, out.arg)

\* C14: every newly created record receives an id greater than every id
\* the store assigned before, the ids of deleted records included, and the
\* records already stored keep their ids.
C14_IdsNeverReused ==
    [][(last'.op = "create" /\ last'.result = "ok" /\ nops' = nops + 1) =>
           /\ \A r \in db.rows : last'.id > r.id
           /\ (last.op = "delete" /\ last.existed) => last'.id > last.id
           /\ RowIds(db'.rows) = RowIds(db.rows) \cup {last'.id}]_vars

\* the password column holds base64(nonce || ciphertext || tag) sealed under
\* the store's key, and is not the secret itself
Sealed(self, row) ==
    LET decoded == STANDARD_decode(row.password)
    IN /\ decoded.ok
       /\ STANDARD_encode(decoded.val) = row.password
       /\ LET secret == decrypt(self.encryption, decoded.val)
          IN /\ secret.ok
             /\ Len(decoded.val) = NonceLen + Len(as_bytes(secret.val)) + TagLen
             /\ row.password # secret.val
             /\ row.password # as_bytes(secret.val)

\* C15: the password column of every stored row is the base64 text of
\* nonce || ciphertext || tag sealed under the store's key, never the
\* secret; a create or update whose encryption failed has written nothing.
C15_CiphertextOnly ==
    /\ \A r \in db.rows : Sealed(db, r)
    /\ (last.op = "create" /\ last.result = "panic") => last.id \notin RowIds(db.rows)
    /\ (last.op = "update" /\ last.result = "panic" /\ last.existed) =>
           /\ last.id \in RowIds(db.rows)
           /\ RowById(db.rows, last.id) = last.before[1]

C15_Witness ==
    /\ last.op = "update"
    /\ last.result = "panic"
    /\ last.existed
    /\ Cardinality(db.rows) = 2
    /\ \E r \in db.rows : Sealed(db, r) /\ decrypt(db.encryption, STANDARD_decode(r.password).val).val = <<233, 115>>

\* C19: create stores the row with created_at equal to updated_at, whatever
\* created_at and updated_at the entry passed in carries.
C19_CreateTimestampsEqual ==
    (last.op = "create" /\ last.result = "ok") =>
        /\ last.id \in RowIds(db.rows)
        /\ RowById(db.rows, last.id).created_at = RowById(db.rows, last.id).updated_at

\* a step that is one call of create, update or delete
StoreCall(op) == nops' = nops + 1 /\ last'.op = op

\* C21: update and delete with an id that no stored row has succeed and
\* leave the rows as they were (update fails only when encryption failed,
\* before its statement ran).
C21_NoMatchIsSilentSuccess ==
    [][/\ (StoreCall("delete") /\ ~last'.existed) =>
              last'.result = "ok" /\ db' = db
       /\ (StoreCall("update") /\ ~last'.existed) =>
              last'.result \in {"ok", "panic"} /\ db' = db]_vars

C21_Witness ==
    /\ last.op = "update"
    /\ last.entry.id = Some(MaxRows + 1)
    /\ ~last.existed
    /\ last.result = "ok"
    /\ Cardinality(db.rows) = MaxRows

\* C22: search returns each hit with the password column as stored, the
\* base64 text of the sealed secret, which is not the secret read returns
\* for the same record.
C22_SearchReturnsStoredCiphertext ==
    out.op = "search" =>
        /\ out.result = "ok"
        /\ \A i \in 1 .. Len(out.val) :
             /\ out.val[i].id # None
             /\ out.val[i].id[1] \in RowIds(db.rows)
             /\ LET row == RowById(db.rows, out.val[i].id[1])
                    got == ReadRow(db, row)
                IN /\ out.val[i].password = row.password
                   /\ STANDARD_decode(out.val[i].password).ok
                   /\ got.ok
                   /\ out.val[i].password # got.val.password

C22_Witness ==
    /\ out.op = "search"
    /\ out.arg = <<98>>
    /\ Len(out.val) = 1
    /\ out.val[1].service = <<65, 98>>
    /\ out.val[1].password = RowById(db.rows, out.val[1].id[1]).password
    /\ ReadRow(db, RowById(db.rows, out.val[1].id[1])).val.password = <<233, 115>>

\* C26: update takes the row to change from the id inside the entry; with
\* an entry whose id is None it changes no row and succeeds (it fails only
\* when encryption failed, before its statement ran).
C26_UpdateSelectsByEntryId ==
    [][StoreCall("update") =>
           /\ last'.result \in {"ok", "panic"}
           /\ last'.entry.id = None => db' = db
           /\ \A r \in db'.rows :
                  r \notin db.rows => (Some(r.id) = last'.entry.id /\ last'.result = "ok")]_vars

C26_Witness ==
    /\ last.op = "update"
    /\ last.entry.id = None
    /\ last.result = "ok"
    /\ db.rows # {}
    /\ \A r \in db.rows : r.service # last.entry.service

\* C27: create adds one row and changes none; update and delete change only
\* the row with the id they were given; read, read_by_id and search change
\* no row.
C27_OtherRowsUntouched ==
    [][/\ StoreCall("create") =>
              /\ db.rows \subseteq db'.rows
              /\ last'.result = "ok" => Cardinality(db'.rows \ db.rows) = 1
              /\ last'.result # "ok" => db'.rows = db.rows
       /\ StoreCall("update") =>
              /\ RowIds(db'.rows) = RowIds(db.rows)
              /\ \A r \in db.rows : Some(r.id) # last'.entry.id => r \in db'.rows
       /\ StoreCall("delete") =>
              db'.rows = {r \in db.rows : r.id # last'.id}
       /\ nops' = nops => db' = db]_vars

C27_Witness ==
    /\ last.op = "update"
    /\ last.existed
    /\ last.result = "ok"
    /\ Cardinality(db.rows) = 2
    /\ \E r \in db.rows : r.id # last.id /\ r.service # last.entry.service

(***************************************************************************)
(* Claims about the entry store opened on an existing file (SpecReopen)    *)
(***************************************************************************)
Readable(self, row) ==
    LET decoded == STANDARD_decode(row.password)
    IN decoded.ok /\ decrypt(self.encryption, decoded.val).ok

\* C20: read returns every stored row, each with its secret decrypted, or
\* it fails as a whole: when the password column of any row cannot be
\* base64-decoded or opened under the store's key there is no result list.
C20_ReadAllOrNothing ==
    out.op = "read" =>
        IF \A r \in db.rows : Readable(db, r)
        THEN /\ out.result = "ok"
             /\ Len(out.val) = Cardinality(db.rows)
             /\ \A r \in db.rows :
                  \E i \in 1 .. Len(out.val) :
                     /\ out.val[i].id = Some(r.id)
                     /\ out.val[i].password =
                            decrypt(db.encryption, STANDARD_decode(r.password).val).val
                     /\ out.val[i].password # r.password
        ELSE /\ out.result = "panic"
             /\ out.val = <<>>

C20_Witness ==
    /\ out.op = "read"
    /\ out.result = "panic"
    /\ out.val = <<>>
    /\ Cardinality(db.rows) = 2
    /\ \E r \in db.rows : Readable(db, r)
    /\ \E r \in db.rows : ~Readable(db, r) /\ STANDARD_decode(r.password).ok

(***************************************************************************)
(* Claims about the generator and the validators (SpecGen)                 *)
(***************************************************************************)
HasClass(p, Class(_)) == \E i \in 1 .. Len(p) : Class(p[i])
Other(c) == ~is_lowercase(c) /\ ~is_uppercase(c) /\ ~is_ascii_digit(c)

\* C11: every password returned by generate_password(Some(n)), n in 8..64,
\* has exactly n characters, all of the charset, and passes the complexity
\* check: it holds a lowercase letter, an uppercase letter, a digit and a
\* character of none of these classes.
C11_GeneratedPasswordValid ==
    (gen.call = "generate_password" /\ gen.pc = "returned" /\ gen.result = "ok") =>
        /\ gen.arg \in 8 .. 64
        /\ Len(gen.password) = gen.arg
        /\ gen.drawn = gen.arg
        /\ \A i \in 1 .. Len(gen.password) :
               \E j \in 1 .. Len(charset) : gen.password[i] = charset[j]
        /\ is_valid_password(gen.password)
        /\ HasClass(gen.password, is_lowercase)
        /\ HasClass(gen.password, is_uppercase)
        /\ HasClass(gen.password, is_ascii_digit)
        /\ HasClass(gen.password, Other)

C11_Witness ==
    /\ gen.call = "generate_password"
    /\ gen.pc = "returned"
    /\ gen.result = "ok"
    /\ gen.arg = 64
    /\ gen.depth = 1
    /\ Len(gen.password) = 64
    /\ gen.password[64] = 66

\* the decimal numerals of v that str::parse takes: an optional '+', any
\* number of leading zeros, then the digits of v
Spells(input, v) ==
    LET body == IF input # <<>> /\ input[1] = 43 THEN Tail(input) ELSE input
    IN \E k \in 0 .. Len(body) : body = [i \in 1 .. k |-> 48] \o to_string(v)

\* C12: the length check answers true exactly for the inputs that spell an
\* integer in 8..64; generate_password(Some(n)) with n below 8 or above 64
\* returns the invalid-length error with no byte drawn and no character
\* pushed, and with n in 8..64 it goes on to draw.
C12_LengthValidatedFirst ==
    /\ (gen.call = "is_valid_password_length" /\ gen.pc = "returned") =>
           (gen.result = "true" <=> \E v \in 8 .. 64 : Spells(gen.input, v))
    /\ (gen.call = "generate_password" /\ gen.arg \notin 8 .. 64) =>
           /\ gen.pc = "returned"
           /\ gen.result = "invalid_length"
           /\ gen.drawn = 0
           /\ gen.password = <<>>
    /\ (gen.call = "generate_password" /\ gen.arg \in 8 .. 64) =>
           /\ gen.result # "invalid_length"
           /\ gen.pc = "draw" \/ gen.result \in {"ok", "panic"}

C12_Witness ==
    /\ gen.call = "generate_password"
    /\ gen.arg = 65
    /\ gen.pc = "returned"
    /\ gen.result = "invalid_length"
    /\ gen.drawn = 0

\* C13: is_valid_password(p) is true exactly when p holds a lowercase
\* letter, an uppercase letter, an ASCII digit and a character of none of
\* these three classes.
C13_ComplexityCheck ==
    (gen.call = "is_valid_password" /\ gen.pc = "returned") =>
        (gen.result = "true" <=>
            /\ HasClass(gen.input, is_lowercase)
            /\ HasClass(gen.input, is_uppercase)
            /\ HasClass(gen.input, is_ascii_digit)
            /\ HasClass(gen.input, Other))

C13_Witness ==
    /\ gen.call = "is_valid_password"
    /\ gen.pc = "returned"
    /\ gen.result = "false"
    /\ gen.input = <<233, 201, 48>>

\* the number of byte values that make the loop push the character c
ByteValues(c) == Cardinality({b \in 0 .. 255 : generate_password_push(<<>>, b) = <<c>>})

\* C23: each character of the alphabet is chosen by the same number of the
\* 256 byte values, a byte that would bias the choice being drawn again
\* rather than pushed.
C23_UniformDraw ==
    (gen.call = "generate_password" /\ gen.drawn > 0) =>
        \A j \in 1 .. Len(charset) : ByteValues(charset[j]) = ByteValues(charset[1])

=============================================================================
